---- MODULE Spec2Model ----
(***************************************************************************)
(* Handel aggregation levels (handel/src/level.rs): construction of the    *)
(* level list from a partitioner, the per-level state behind its lock, the *)
(* round-robin peer selection and the start flag.                          *)
(*                                                                         *)
(* Sequences are 1-based: the Level with index l of a level list is the    *)
(* code's levels[l - 1]; peer_ids[k + 1] is the code's peer_ids[k].        *)
(***************************************************************************)
EXTENDS Integers, Sequences, FiniteSets, TLC

VARIABLES
    pc,           \* "init" | "create_levels" | "ready" | "panicked" | "protocol" | "threads"
    partitioner,  \* create_levels' partitioner argument: [levels, range]
    node_id,      \* create_levels' node_id argument
    i,            \* create_levels' loop variable
    tree_lhs,     \* create_levels' local: the half-open range start..end
    levels,       \* the Vec<Level> (being built, then handed to the caller)
    focus,        \* index of the level of the list that the caller holds and calls
    hist,         \* the calls made on that level and what they returned
    ret,          \* the last boolean returned by start / is_started / is_complete / is_empty
    committee,    \* one level list per committee member (committee runs)
    first,        \* committee runs: first[a][l] = result of a's first selection on level l
    round,        \* committee runs: the level whose first selections are under way
    protocol,     \* aggregation runs: configuration, store, tick counter, sends, terminal flag
    observed,     \* the last number returned by num_peers
    threads       \* concurrent runs: the holder of the level's write lock and each caller's position

vars == <<pc, partitioner, node_id, i, tree_lhs, levels, focus, hist, ret, committee, first, round, protocol,
         observed, threads>>

-----------------------------------------------------------------------------
(* Bounds of the model *)

\* committee sizes of the binary partitioner, 1..MaxN
MaxN == 5
\* indices a hand-made partitioner may answer with, 0..MaxIdx
MaxIdx == 2
\* longest peer_ids list given to Level::new directly
MaxPeers == 3
\* level ids given to Level::new directly: select_next_peers only asks id == 0
LevelIds == {0, 1}
\* largest count given to select_next_peers
MaxCount == 3
\* calls of select_next_peers and start made on a level built directly
MaxOps == 3
\* calls of select_next_peers and start made on a level of a created list
MaxListOps == 2
\* committee sizes of the committee runs, 1..MaxCommittee
MaxCommittee == 8
\* committee sizes of the aggregation runs, 1..MaxProtocolN
MaxProtocolN == 3
\* peers_per_tick k of the aggregation runs
PeersPerTick == 1
\* level_start_timeout of the aggregation runs: level i's is (i + 1) * TimeoutTicks ticks
TimeoutTicks == 1
\* ticks of an aggregation run
MaxTicks == 3
\* on_update calls of an aggregation run
MaxUpdates == 2

min(a, b) == IF a < b THEN a ELSE b

RECURSIVE Pow2(_)
Pow2(k) == IF k = 0 THEN 1 ELSE 2 * Pow2(k - 1)

\* all sequences over S of length 0..n
RECURSIVE SeqsUpTo(_, _)
SeqsUpTo(S, n) ==
    IF n = 0 THEN {<<>>}
    ELSE LET shorter == SeqsUpTo(S, n - 1)
         IN  shorter \cup {Append(s, x) : s \in {t \in shorter : Len(t) = n - 1}, x \in S}

-----------------------------------------------------------------------------
(* The partitioner: levels() and range(i), by its contract *)

Ok(start, end) == [tag |-> "Ok", start |-> start, end |-> end]
EmptyLevel == [tag |-> "EmptyLevel", start |-> 0, end |-> 0]
InvalidLevel == [tag |-> "InvalidLevel", start |-> 0, end |-> 0]

\* number of levels for a committee of n: ceil(log2 n) + 1
RECURSIVE NumLevels(_)
NumLevels(n) == IF n <= 1 THEN 1 ELSE 1 + NumLevels((n + 1) \div 2)

\* range(level) of the binary partitioner for node in a committee of n: the
\* sibling of node's block of 2^(level-1) indices, clipped by n
BinaryRange(n, node, level) ==
    IF level = 0 THEN Ok(node, node)
    ELSE LET size == Pow2(level - 1)
             block == node \div size
             sibling == IF block % 2 = 0 THEN block + 1 ELSE block - 1
             lo == sibling * size
             hi == lo + size - 1
         IN  IF lo > n - 1 THEN EmptyLevel ELSE Ok(lo, min(hi, n - 1))

BinaryPartitioner(n, node) ==
    [levels |-> NumLevels(n),
     range  |-> [k \in 1..NumLevels(n) |-> BinaryRange(n, node, k - 1)]]

\* what a partitioner may answer for a level >= 1: any inclusive range over
\* 0..MaxIdx (start > end is an empty range), EmptyLevel, or another error
Answers ==
    {Ok(a, b) : a \in 0..MaxIdx, b \in 0..MaxIdx} \cup {EmptyLevel, InvalidLevel}

\* hand-made partitioners of three levels; level 0 is the node itself
AnyPartitioner(node) ==
    {[levels |-> 3, range |-> <<Ok(node, node), r1, r2>>] : r1 \in Answers, r2 \in Answers}

-----------------------------------------------------------------------------
(* Level *)

\* mutant: a new level counts as started
Level_new_started(id, peer_ids) ==
    [id |-> id,
     peer_ids |-> peer_ids,
     state |-> [started |-> TRUE, complete |-> FALSE, next_peer_index |-> 0]]

Level_new(id, peer_ids) ==
    [id |-> id,
     peer_ids |-> peer_ids,
     state |-> [started |-> FALSE, complete |-> FALSE, next_peer_index |-> 0]]

num_peers(level) == Len(level.peer_ids)

is_empty(level) == Len(level.peer_ids) = 0

\* mutant: every level counts as started
is_started_always(level) == TRUE

is_started(level) == level.state.started

is_complete(level) == level.state.complete

\* mutant: the inclusive range is read as a half-open one
Collect_exclusive(start, end) == [k \in 1..(IF end > start THEN end - start ELSE 0) |-> start + k - 1]

\* mutant: the range is collected from id 0 whatever its start
Collect_from_zero(start, end) == [k \in 1..(IF end >= start THEN end + 1 ELSE 0) |-> k - 1]

\* tree_rhs.clone().collect::<Vec<usize>>() of an inclusive range
Collect(start, end) == [k \in 1..(IF end >= start THEN end - start + 1 ELSE 0) |-> start + k - 1]

\* tree_lhs.position(|id| id == node_id): the index of node in start..end,
\* -1 for None
position(rng, node) ==
    IF rng.start <= node /\ node < rng.end THEN node - rng.start ELSE -1

\* mutant: every level starts at its first peer
initial_peer_index_zero(index, level) == 0

\* mutant: the position is counted from the far end of the peer list
initial_peer_index_mirrored(index, level) ==
    Len(level.peer_ids) - 1 - (index % Len(level.peer_ids))

\* mutant: the position is taken as it is, not reduced to the peer list
initial_peer_index_unreduced(index, level) == index

\* the cursor a level >= 1 starts with
initial_peer_index(index, level) == index % Len(level.peer_ids)

\* mutant: a range on neither side is skipped instead of refused
extend_tree_lhs_unchecked(lhs, tree_rhs) ==
    IF tree_rhs.end + 1 = lhs.start THEN
        [start |-> tree_rhs.start, end |-> lhs.end, panic |-> "none"]
    ELSE IF tree_rhs.start = lhs.end THEN
        [start |-> lhs.start, end |-> tree_rhs.end + 1, panic |-> "none"]
    ELSE
        [start |-> lhs.start, end |-> lhs.end, panic |-> "none"]

\* mutant: only a range on the left of tree_lhs is accepted
extend_tree_lhs_left_only(lhs, tree_rhs) ==
    IF tree_rhs.end + 1 = lhs.start THEN
        [start |-> tree_rhs.start, end |-> lhs.end, panic |-> "none"]
    ELSE
        [start |-> lhs.start, end |-> lhs.end, panic |-> "ranges must be consecutive"]

\* mutant: a range on the right moves the end to its last id, not past it
extend_tree_lhs_inclusive_end(lhs, tree_rhs) ==
    IF tree_rhs.end + 1 = lhs.start THEN
        [start |-> tree_rhs.start, end |-> lhs.end, panic |-> "none"]
    ELSE IF tree_rhs.start = lhs.end THEN
        [start |-> lhs.start, end |-> tree_rhs.end, panic |-> "none"]
    ELSE
        [start |-> lhs.start, end |-> lhs.end, panic |-> "ranges must be consecutive"]

\* the update of tree_lhs by the inclusive range tree_rhs, or the panic
extend_tree_lhs(lhs, tree_rhs) ==
    IF tree_rhs.end + 1 = lhs.start THEN
        [start |-> tree_rhs.start, end |-> lhs.end, panic |-> "none"]
    ELSE IF tree_rhs.start = lhs.end THEN
        [start |-> lhs.start, end |-> tree_rhs.end + 1, panic |-> "none"]
    ELSE
        [start |-> lhs.start, end |-> lhs.end, panic |-> "ranges must be consecutive"]

\* mutant: EmptyLevel has no arm of its own and falls to the fatal one
create_levels_iter_empty_fatal(loc, idx, r, node) ==
    IF r.tag = "Ok" THEN
        LET ids == Collect(r.start, r.end)
            level == Level_new(idx, ids)
        IN  IF idx = 0 THEN
                [levels   |-> Append(loc.levels, [level EXCEPT !.state.started = TRUE]),
                 tree_lhs |-> [start |-> node, end |-> node + 1],
                 panic    |-> "none"]
            ELSE IF position(loc.tree_lhs, node) < 0 THEN
                [loc EXCEPT !.panic = "The node must always be present on its side of the tree"]
            ELSE IF Len(ids) = 0 THEN
                [loc EXCEPT !.panic = "attempt to calculate the remainder with a divisor of zero"]
            ELSE
                LET index == position(loc.tree_lhs, node)
                    placed == [level EXCEPT !.state.next_peer_index = initial_peer_index(index, level)]
                    ext == extend_tree_lhs(loc.tree_lhs, r)
                IN  IF ext.panic = "none" THEN
                        [levels   |-> Append(loc.levels, placed),
                         tree_lhs |-> [start |-> ext.start, end |-> ext.end],
                         panic    |-> "none"]
                    ELSE
                        [loc EXCEPT !.panic = ext.panic]
    ELSE
        [loc EXCEPT !.panic = r.tag]

\* One iteration of create_levels' loop: loc holds the locals (levels,
\* tree_lhs, panic), r is partitioner.range(idx).
create_levels_iter(loc, idx, r, node) ==
    IF r.tag = "Ok" THEN
        LET ids == Collect(r.start, r.end)
            level == Level_new(idx, ids)
        IN  IF idx = 0 THEN
                [levels   |-> Append(loc.levels, [level EXCEPT !.state.started = TRUE]),
                 tree_lhs |-> [start |-> node, end |-> node + 1],
                 panic    |-> "none"]
            ELSE IF position(loc.tree_lhs, node) < 0 THEN
                [loc EXCEPT !.panic = "The node must always be present on its side of the tree"]
            ELSE IF Len(ids) = 0 THEN
                [loc EXCEPT !.panic = "attempt to calculate the remainder with a divisor of zero"]
            ELSE
                LET index == position(loc.tree_lhs, node)
                    placed == [level EXCEPT !.state.next_peer_index = initial_peer_index(index, level)]
                    ext == extend_tree_lhs(loc.tree_lhs, r)
                IN  IF ext.panic = "none" THEN
                        [levels   |-> Append(loc.levels, placed),
                         tree_lhs |-> [start |-> ext.start, end |-> ext.end],
                         panic    |-> "none"]
                    ELSE
                        [loc EXCEPT !.panic = ext.panic]
    ELSE IF r.tag = "EmptyLevel" THEN
        [loc EXCEPT !.levels = Append(loc.levels, Level_new(idx, <<>>))]
    ELSE
        [loc EXCEPT !.panic = r.tag]

\* the locals before the loop
create_levels_locals ==
    [levels |-> <<>>, tree_lhs |-> [start |-> 0, end |-> 0], panic |-> "none"]

\* create_levels run to its end: the locals after the loop, from iteration idx
RECURSIVE create_levels_from(_, _, _, _)
create_levels_from(loc, idx, p, node) ==
    IF loc.panic /= "none" \/ idx >= p.levels THEN loc
    ELSE create_levels_from(create_levels_iter(loc, idx, p.range[idx + 1], node), idx + 1, p, node)

create_levels(p, node) == create_levels_from(create_levels_locals, 0, p, node)

\* mutant: the cursor wraps one position early, so the last peer is never read
RECURSIVE select_loop_wrap_early(_, _, _, _, _)
select_loop_wrap_early(peer_ids, st, selected, visited, n) ==
    IF n = 0 THEN [ret |-> selected, state |-> st, visited |-> visited]
    ELSE select_loop_wrap_early(peer_ids,
                     [st EXCEPT !.next_peer_index =
                         IF st.next_peer_index + 1 >= Len(peer_ids) - 1 THEN 0 ELSE st.next_peer_index + 1],
                     Append(selected, peer_ids[st.next_peer_index + 1]),
                     Append(visited, st.next_peer_index),
                     n - 1)

\* the loop of select_next_peers: n iterations from state st; visited is the
\* list of indices peer_ids was read at
RECURSIVE select_loop(_, _, _, _, _)
select_loop(peer_ids, st, selected, visited, n) ==
    IF n = 0 THEN [ret |-> selected, state |-> st, visited |-> visited]
    ELSE select_loop(peer_ids,
                     [st EXCEPT !.next_peer_index = (st.next_peer_index + 1) % Len(peer_ids)],
                     Append(selected, peer_ids[st.next_peer_index + 1]),
                     Append(visited, st.next_peer_index),
                     n - 1)

\* mutant: count is not capped by the number of peers
select_next_peers_uncapped(level, count) ==
    IF level.id = 0 \/ is_empty(level) THEN
        [ret |-> <<>>, state |-> level.state, visited |-> <<>>]
    ELSE
        select_loop(level.peer_ids, level.state, <<>>, <<>>, count)

\* mutant: the loop runs on a copy of the state, the cursor is not written back
select_next_peers_cursor_lost(level, count) ==
    IF level.id = 0 \/ is_empty(level) THEN
        [ret |-> <<>>, state |-> level.state, visited |-> <<>>]
    ELSE
        [select_loop(level.peer_ids, level.state, <<>>, <<>>, min(count, Len(level.peer_ids)))
            EXCEPT !.state = level.state]

\* mutant: level 0 is not told apart
select_next_peers_any_id(level, count) ==
    IF is_empty(level) THEN
        [ret |-> <<>>, state |-> level.state, visited |-> <<>>]
    ELSE
        select_loop(level.peer_ids, level.state, <<>>, <<>>, min(count, Len(level.peer_ids)))

\* mutant: selecting from a level also marks it started
select_next_peers_starts(level, count) ==
    IF level.id = 0 \/ is_empty(level) THEN
        [ret |-> <<>>, state |-> level.state, visited |-> <<>>]
    ELSE
        [select_loop(level.peer_ids, level.state, <<>>, <<>>, min(count, Len(level.peer_ids)))
            EXCEPT !.state.started = TRUE]

select_next_peers(level, count) ==
    IF level.id = 0 \/ is_empty(level) THEN
        [ret |-> <<>>, state |-> level.state, visited |-> <<>>]
    ELSE
        select_loop(level.peer_ids, level.state, <<>>, <<>>, min(count, Len(level.peer_ids)))

\* mutant: the flag is read but not written
start_not_stored(level) ==
    [ret |-> ~level.state.started, state |-> level.state]

\* mutant: the flag is flipped instead of set
start_toggles(level) ==
    [ret |-> ~level.state.started, state |-> [level.state EXCEPT !.started = ~level.state.started]]

start(level) ==
    [ret |-> ~level.state.started, state |-> [level.state EXCEPT !.started = TRUE]]

\* the protocol marks a level complete once its store has aggregated it
mark_complete(level) == [level.state EXCEPT !.complete = TRUE]

-----------------------------------------------------------------------------
(* The caller. Levels share no state (each Level owns its LevelState), so a *)
(* run calls one level of the list, levels[focus], and keeps beside it what *)
(* it was handed out with and what every call on it returned.               *)

NewHist(level) ==
    [cursor0 |-> level.state.next_peer_index,
     started0 |-> level.state.started,
     calls |-> <<>>,
     starts |-> <<>>]

OpsUsed == Len(hist.calls) + Len(hist.starts)

Budget == IF partitioner.levels = 0 THEN MaxOps ELSE MaxListOps

\* no concurrent callers: the lock is free
NoThreads == [lock |-> 0, t |-> <<>>]

\* no aggregation has been constructed
NoProtocol ==
    [terminal |-> TRUE, n |-> 0, k |-> 0, timeout |-> 0, clock |-> 0, updates |-> 0,
     sent |-> <<>>, store |-> [individual |-> <<>>, best |-> <<>>, best_incoming |-> <<>>]]

Init ==
    /\ pc = "init"
    /\ partitioner = [levels |-> 0, range |-> <<>>]
    /\ node_id = 0
    /\ i = 0
    /\ tree_lhs = [start |-> 0, end |-> 0]
    /\ levels = <<>>
    /\ focus = 0
    /\ hist = NewHist(Level_new(0, <<>>))
    /\ ret = FALSE
    /\ committee = <<>>
    /\ first = <<>>
    /\ round = 0
    /\ protocol = NoProtocol
    /\ observed = 0
    /\ threads = NoThreads

\* a caller builds one level directly
LevelNew(id, peer_ids) ==
    /\ pc = "init"
    /\ pc' = "ready"
    /\ levels' = <<Level_new(id, peer_ids)>>
    /\ focus' = 1
    /\ hist' = NewHist(levels'[1])
    /\ UNCHANGED <<partitioner, node_id, i, tree_lhs, ret, committee, first, round, protocol, observed, threads>>

\* create_levels is entered: levels and tree_lhs are initialised
CreateLevelsEnter(p, node) ==
    /\ pc = "init"
    /\ pc' = "create_levels"
    /\ partitioner' = p
    /\ node_id' = node
    /\ i' = 0
    /\ levels' = create_levels_locals.levels
    /\ tree_lhs' = create_levels_locals.tree_lhs
    /\ UNCHANGED <<focus, hist, ret, committee, first, round, protocol, observed, threads>>

\* one iteration of the loop of create_levels
CreateLevelsIter ==
    /\ pc = "create_levels"
    /\ i < partitioner.levels
    /\ LET loc == create_levels_iter([levels |-> levels, tree_lhs |-> tree_lhs, panic |-> "none"],
                                     i, partitioner.range[i + 1], node_id)
       IN  /\ levels' = loc.levels
           /\ tree_lhs' = loc.tree_lhs
           /\ pc' = IF loc.panic = "none" THEN "create_levels" ELSE "panicked"
           /\ i' = IF loc.panic = "none" THEN i + 1 ELSE i
    /\ UNCHANGED <<partitioner, node_id, focus, hist, ret, committee, first, round, protocol, observed, threads>>

\* the loop is over: create_levels returns levels, and the caller takes level f
CreateLevelsReturn(f) ==
    /\ pc = "create_levels"
    /\ i >= partitioner.levels
    /\ pc' = "ready"
    /\ focus' = f
    /\ hist' = NewHist(levels[f])
    /\ UNCHANGED <<partitioner, node_id, i, tree_lhs, levels, ret, committee, first, round, protocol, observed, threads>>

SelectNextPeers(count) ==
    /\ pc = "ready"
    /\ OpsUsed < Budget
    /\ LET r == select_next_peers(levels[focus], count)
       IN  /\ levels' = [levels EXCEPT ![focus].state = r.state]
           /\ hist' = [hist EXCEPT !.calls =
                          Append(@, [count |-> count,
                                     cursor |-> levels[focus].state.next_peer_index,
                                     after |-> r.state.next_peer_index,
                                     ret |-> r.ret,
                                     visited |-> r.visited])]
    /\ UNCHANGED <<pc, partitioner, node_id, i, tree_lhs, focus, ret, committee, first, round, protocol, observed, threads>>

Start ==
    /\ pc = "ready"
    /\ OpsUsed < Budget
    /\ LET r == start(levels[focus])
       IN  /\ levels' = [levels EXCEPT ![focus].state = r.state]
           /\ hist' = [hist EXCEPT !.starts = Append(@, r.ret)]
           /\ ret' = r.ret
    /\ UNCHANGED <<pc, partitioner, node_id, i, tree_lhs, focus, committee, first, round, protocol, observed, threads>>

IsStarted ==
    /\ pc = "ready"
    /\ ret' = is_started(levels[focus])
    /\ UNCHANGED <<pc, partitioner, node_id, i, tree_lhs, levels, focus, hist, committee, first, round, protocol, observed, threads>>

IsEmpty ==
    /\ pc = "ready"
    /\ ret' = is_empty(levels[focus])
    /\ UNCHANGED <<pc, partitioner, node_id, i, tree_lhs, levels, focus, hist, committee, first, round, protocol, observed, threads>>

NumPeersOf ==
    /\ pc = "ready"
    /\ observed' = num_peers(levels[focus])
    /\ UNCHANGED <<pc, partitioner, node_id, i, tree_lhs, levels, focus, hist, ret, committee, first, round, protocol, threads>>

IsComplete ==
    /\ pc = "ready"
    /\ ret' = is_complete(levels[focus])
    /\ UNCHANGED <<pc, partitioner, node_id, i, tree_lhs, levels, focus, hist, committee, first, round, protocol, observed, threads>>

\* completion event: the store reports a started level aggregated
MarkComplete ==
    /\ pc = "ready"
    /\ levels[focus].state.started
    /\ levels' = [levels EXCEPT ![focus].state = mark_complete(levels[focus])]
    /\ UNCHANGED <<pc, partitioner, node_id, i, tree_lhs, focus, hist, ret, committee, first, round, protocol, observed, threads>>

\* a level list is built by create_levels, with the binary partitioner or a
\* hand-made one, or one level is built directly; then its methods are called
Next ==
    \/ \E id \in LevelIds : \E peer_ids \in SeqsUpTo(0..1, MaxPeers) : LevelNew(id, peer_ids)
    \/ \E n \in 1..MaxN : \E node \in 0..(n - 1) : CreateLevelsEnter(BinaryPartitioner(n, node), node)
    \/ \E node \in 0..MaxIdx : \E p \in AnyPartitioner(node) : CreateLevelsEnter(p, node)
    \/ CreateLevelsIter
    \/ \E f \in 1..Len(levels) : CreateLevelsReturn(f)
    \/ \E count \in 0..MaxCount : SelectNextPeers(count)
    \/ Start
    \/ IsStarted
    \/ IsComplete
    \/ IsEmpty
    \/ NumPeersOf
    \/ MarkComplete

Spec == Init /\ [][Next]_vars

-----------------------------------------------------------------------------
(* Committee runs: every member of a committee of n builds its level list  *)
(* from the binary partitioner; then, level by level, each member makes    *)
(* its first selection of one peer.                                        *)

CommitteeBuild(n) ==
    /\ pc = "init"
    /\ LET built == [a \in 1..n |-> create_levels(BinaryPartitioner(n, a - 1), a - 1)]
       IN  /\ pc' = IF \E a \in 1..n : built[a].panic /= "none" THEN "panicked" ELSE "committee"
           /\ committee' = [a \in 1..n |-> built[a].levels]
           /\ first' = [a \in 1..n |-> [l \in 1..NumLevels(n) |-> [done |-> FALSE, ret |-> <<>>]]]
    /\ round' = 1
    /\ UNCHANGED <<partitioner, node_id, i, tree_lhs, levels, focus, hist, ret, protocol, observed, threads>>

\* member a - 1 selects one peer on the level under way
FirstSelect(a) ==
    /\ pc = "committee"
    /\ ~first[a][round].done
    /\ LET r == select_next_peers(committee[a][round], 1)
       IN  /\ committee' = [committee EXCEPT ![a][round].state = r.state]
           /\ first' = [first EXCEPT ![a][round] = [done |-> TRUE, ret |-> r.ret]]
    /\ UNCHANGED <<pc, partitioner, node_id, i, tree_lhs, levels, focus, hist, ret, round, protocol, observed, threads>>

NextRound ==
    /\ pc = "committee"
    /\ \A a \in 1..Len(committee) : first[a][round].done
    /\ round < Len(committee[1])
    /\ round' = round + 1
    /\ UNCHANGED <<pc, partitioner, node_id, i, tree_lhs, levels, focus, hist, ret, committee, first, protocol, observed, threads>>

NextCommittee ==
    \/ \E n \in 1..MaxCommittee : CommitteeBuild(n)
    \/ \E a \in 1..Len(committee) : FirstSelect(a)
    \/ NextRound

SpecCommittee == Init /\ [][NextCommittee]_vars

-----------------------------------------------------------------------------
(* The aggregation protocol over a level list: store, evaluator, tick, and  *)
(* the receive path. A contribution is its contributors set and, for the    *)
(* opaque aggregated signature payload, the number of signature shares      *)
(* aggregated inside it; an Option is <<>> or <<value>>.                    *)

None == <<>>
Some(c) == <<c>>

\* a well-formed contribution of the contributors s: one share of each
Contribution(s) == [contributors |-> s, shares |-> Cardinality(s)]

Overlap == [tag |-> "Overlap"]

\* mutant: the contributions are merged without the disjointness check
combine_unchecked(a, b) ==
    [tag |-> "Ok",
     c   |-> [contributors |-> a.contributors \cup b.contributors, shares |-> a.shares + b.shares]]

\* combine: merges a disjoint contribution, fails with Overlap otherwise
combine(a, b) ==
    IF a.contributors \cap b.contributors = {} THEN
        [tag |-> "Ok",
         c   |-> [contributors |-> a.contributors \cup b.contributors, shares |-> a.shares + b.shares]]
    ELSE Overlap

PeerSet(level) == {level.peer_ids[x] : x \in 1..Len(level.peer_ids)}

\* mutant: the peers of every level above 0 are admissible on each level
admissible_set_any_level(lvls, l) == UNION {PeerSet(lvls[j + 1]) : j \in 1..(Len(lvls) - 1)}

\* I1: the union of peer_ids of levels 1..l
admissible_set(lvls, l) == UNION {PeerSet(lvls[j + 1]) : j \in 1..l}

\* the sum of |peer_ids| over levels 1..l
RECURSIVE num_admissible(_, _)
num_admissible(lvls, l) ==
    IF l = 0 THEN 0 ELSE Len(lvls[l + 1].peer_ids) + num_admissible(lvls, l - 1)

\* Evaluator: more contributors score higher, a contribution outside the
\* level's admissible set is unusable
score(lvls, l, c) ==
    IF c.contributors \subseteq admissible_set(lvls, l) THEN Cardinality(c.contributors) ELSE 0

score_of(lvls, l, opt) == IF opt = None THEN 0 ELSE score(lvls, l, opt[1])

\* Evaluator on a candidate for best: a duplicate of the current best scores 0
evaluate(lvls, l, best, c) == IF best = Some(c) THEN 0 ELSE score(lvls, l, c)

NewStore(n, num_levels) ==
    [individual    |-> [l \in 0..(num_levels - 1) |-> {}],
     best          |-> [l \in 0..(num_levels - 1) |-> None],
     best_incoming |-> [l \in 0..(num_levels - 1) |-> [p \in 0..(n - 1) |-> None]]]

\* mutant: the peer's bit is flipped instead of set
put_individual_toggle(store, l, peer_idx, c) ==
    IF c.contributors = {peer_idx}
    THEN [store EXCEPT !.individual[l] = (@ \ {peer_idx}) \cup ({peer_idx} \ @)]
    ELSE store

put_individual(store, l, peer_idx, c) ==
    IF c.contributors = {peer_idx} THEN [store EXCEPT !.individual[l] = @ \cup {peer_idx}]
    ELSE store

\* the greedy extension of base by the stored singletons of singles, in
\* index order; a singleton whose combine fails with Overlap is discarded
RECURSIVE extend(_, _)
extend(base, singles) ==
    IF singles = {} THEN base
    ELSE LET p == CHOOSE x \in singles : \A y \in singles : x <= y
             r == combine(base, Contribution({p}))
         IN  extend(IF r.tag = "Ok" THEN r.c ELSE base, singles \ {p})

\* mutant: a candidate of equal score replaces the best
put_combined_ties(store, lvls, l, peer_idx, c) ==
    LET kept == IF score(lvls, l, c) > score_of(lvls, l, store.best_incoming[l][peer_idx])
                THEN [store EXCEPT !.best_incoming[l][peer_idx] = Some(c)]
                ELSE store
        candidate == extend(c, {p \in kept.individual[l] : p \notin c.contributors})
    IN  IF score(lvls, l, candidate) >= score_of(lvls, l, kept.best[l])
        THEN [kept EXCEPT !.best[l] = Some(candidate)]
        ELSE kept

put_combined(store, lvls, l, peer_idx, c) ==
    LET kept == IF score(lvls, l, c) > score_of(lvls, l, store.best_incoming[l][peer_idx])
                THEN [store EXCEPT !.best_incoming[l][peer_idx] = Some(c)]
                ELSE store
        candidate == extend(c, {p \in kept.individual[l] : p \notin c.contributors})
    IN  IF evaluate(lvls, l, kept.best[l], candidate) > score_of(lvls, l, kept.best[l])
        THEN [kept EXCEPT !.best[l] = Some(candidate)]
        ELSE kept

\* the level's best combined with the bests of the levels below, skipping a
\* best that overlaps what is already combined
RECURSIVE combined_from(_, _, _)
combined_from(store, l, acc) ==
    LET b == store.best[l]
        next == IF b = None THEN acc
                ELSE IF acc = None THEN b
                ELSE LET r == combine(acc[1], b[1])
                     IN  IF r.tag = "Ok" THEN Some(r.c) ELSE acc
    IN  IF l = 0 THEN next ELSE combined_from(store, l - 1, next)

combined(store, l) == combined_from(store, l, None)

\* the store reports the level aggregated: level 0 holds the own
\* contribution, a level above holds a best with all admissible contributors
aggregated(lvls, store, l) ==
    /\ store.best[l] /= None
    /\ l >= 1 => Cardinality(store.best[l][1].contributors) = num_admissible(lvls, l)

\* Started -> Complete once the store reports the level aggregated
check_completed_level(lvls, store, l) ==
    LET level == lvls[l + 1]
    IN  IF is_started(level) /\ ~is_complete(level) /\ aggregated(lvls, store, l)
        THEN [lvls EXCEPT ![l + 1].state = mark_complete(level)]
        ELSE lvls

level_start_timeout(unit, l) == (l + 1) * unit

all_lower_complete(lvls, l) == \A j \in 0..(l - 1) : is_complete(lvls[j + 1])

\* the start rule for level l at tick counter clock
start_level(lvls, l, clock, unit) ==
    LET level == lvls[l + 1]
    IN  IF l >= 1 /\ ~is_started(level)
           /\ (all_lower_complete(lvls, l) \/ clock >= level_start_timeout(unit, l))
        THEN [lvls EXCEPT ![l + 1].state = start(level).state]
        ELSE lvls

\* the send rule for level l: the peers selected and the updates emitted
send_level(lvls, store, l, k) ==
    LET level == lvls[l + 1]
    IN  IF is_started(level) /\ ~is_complete(level) THEN
            LET r == select_next_peers(level, k)
                out == combined(store, l)
            IN  [levels |-> [lvls EXCEPT ![l + 1].state = r.state],
                 sends  |-> IF out = None THEN <<>>
                            ELSE [x \in 1..Len(r.ret) |->
                                     [to |-> r.ret[x], level |-> l, contribution |-> out[1]]]]
        ELSE [levels |-> lvls, sends |-> <<>>]

\* mutant: the levels are served from the top level down
RECURSIVE tick_levels_descending(_, _, _, _)
tick_levels_descending(p, lvls, l, sent) ==
    IF l >= Len(lvls) THEN [levels |-> lvls, sent |-> sent]
    ELSE LET begun == start_level(lvls, l, p.clock, p.timeout)
             checked == check_completed_level(begun, p.store, l)
             r == send_level(checked, p.store, l, p.k)
         IN  tick_levels_descending(p, r.levels, l + 1, r.sends \o sent)

\* one tick over the levels l, l + 1, ...: start rule, completion, send rule
RECURSIVE tick_levels(_, _, _, _)
tick_levels(p, lvls, l, sent) ==
    IF l >= Len(lvls) THEN [levels |-> lvls, sent |-> sent]
    ELSE LET begun == start_level(lvls, l, p.clock, p.timeout)
             checked == check_completed_level(begun, p.store, l)
             r == send_level(checked, p.store, l, p.k)
         IN  tick_levels(p, r.levels, l + 1, sent \o r.sends)

top_complete(lvls) == is_complete(lvls[Len(lvls)])

\* new(committee, node_id, evaluator, transport) with its configuration
ProtocolNew(n, node, k, unit) ==
    /\ pc = "init"
    /\ LET built == create_levels(BinaryPartitioner(n, node), node)
       IN  /\ pc' = IF built.panic /= "none" THEN "panicked" ELSE "protocol"
           /\ levels' = built.levels
           /\ tree_lhs' = built.tree_lhs
           /\ protocol' = [terminal |-> FALSE, n |-> n, k |-> k, timeout |-> unit,
                           clock |-> 0, updates |-> 0, sent |-> <<>>,
                           store |-> NewStore(n, Len(built.levels))]
    /\ partitioner' = BinaryPartitioner(n, node)
    /\ node_id' = node
    /\ i' = NumLevels(n)
    /\ UNCHANGED <<focus, hist, ret, committee, first, round, observed, threads>>

\* submit_own(contrib): the own singleton becomes level 0's best; ignored
\* when terminal
submit_own(p, lvls, node) ==
    IF p.terminal THEN [levels |-> lvls, protocol |-> p]
    ELSE LET store == [p.store EXCEPT !.individual[0] = {node},
                                      !.best[0] = Some(Contribution({node}))]
             checked == check_completed_level(lvls, store, 0)
         IN  [levels   |-> checked,
              protocol |-> [p EXCEPT !.store = store, !.terminal = top_complete(checked)]]

\* on_update(from, level, contrib), valid being the signature hook's answer:
\* ignored when terminal, dropped when invalid or not admissible
on_update(p, lvls, from, l, c, valid) ==
    IF p.terminal \/ ~valid \/ ~(c.contributors \subseteq admissible_set(lvls, l)) THEN
        [levels |-> lvls, protocol |-> p]
    ELSE
        LET fed == IF Cardinality(c.contributors) = 1 THEN put_individual(p.store, l, from, c)
                   ELSE p.store
            store == put_combined(fed, lvls, l, from, c)
            checked == check_completed_level(lvls, store, l)
        IN  [levels   |-> checked,
             protocol |-> [p EXCEPT !.updates = @ + 1, !.store = store,
                                    !.terminal = top_complete(checked)]]

\* mutant: the tick does not ask the terminal flag
tick_when_terminal(p, lvls) ==
    LET q == [p EXCEPT !.clock = @ + 1]
        r == tick_levels(q, lvls, 0, <<>>)
    IN  [levels   |-> r.levels,
         protocol |-> [q EXCEPT !.sent = r.sent, !.terminal = p.terminal \/ top_complete(r.levels)]]

\* tick(): ignored when terminal
tick(p, lvls) ==
    IF p.terminal THEN [levels |-> lvls, protocol |-> p]
    ELSE LET q == [p EXCEPT !.clock = @ + 1]
             r == tick_levels(q, lvls, 0, <<>>)
         IN  [levels   |-> r.levels,
              protocol |-> [q EXCEPT !.sent = r.sent, !.terminal = top_complete(r.levels)]]

SubmitOwn ==
    /\ pc = "protocol"
    /\ LET r == submit_own(protocol, levels, node_id)
       IN  levels' = r.levels /\ protocol' = r.protocol
    /\ UNCHANGED <<pc, partitioner, node_id, i, tree_lhs, focus, hist, ret, committee, first, round, observed, threads>>

OnUpdate(from, l, c, valid) ==
    /\ pc = "protocol"
    /\ protocol.updates < MaxUpdates
    /\ LET r == on_update(protocol, levels, from, l, c, valid)
       IN  levels' = r.levels /\ protocol' = r.protocol
    /\ UNCHANGED <<pc, partitioner, node_id, i, tree_lhs, focus, hist, ret, committee, first, round, observed, threads>>

Tick ==
    /\ pc = "protocol"
    /\ protocol.clock < MaxTicks
    /\ LET r == tick(protocol, levels)
       IN  levels' = r.levels /\ protocol' = r.protocol
    /\ UNCHANGED <<pc, partitioner, node_id, i, tree_lhs, focus, hist, ret, committee, first, round, observed, threads>>

\* abort()
Abort ==
    /\ pc = "protocol"
    /\ protocol' = [protocol EXCEPT !.terminal = TRUE]
    /\ UNCHANGED <<pc, partitioner, node_id, i, tree_lhs, levels, focus, hist, ret, committee, first, round, observed, threads>>

NextProtocol ==
    \/ \E n \in 1..MaxProtocolN : \E node \in {0, n - 1} :
           ProtocolNew(n, node, PeersPerTick, TimeoutTicks)
    \/ SubmitOwn
    \/ \E from \in (0..(protocol.n - 1)) \ {node_id} : \E l \in 0..(Len(levels) - 1) :
           \/ \E c \in SUBSET (0..(protocol.n - 1)) : OnUpdate(from, l, Contribution(c), TRUE)
           \/ OnUpdate(from, l, Contribution({from}), FALSE)
    \/ Tick
    \/ Abort

SpecProtocol == Init /\ [][NextProtocol]_vars

\* delivery runs: the aggregation up to the last but one on_update; the
\* deliveries that follow are taken from every state by the formula checked
NextDelivery ==
    \/ \E n \in 1..MaxProtocolN : \E node \in {0, n - 1} :
           ProtocolNew(n, node, PeersPerTick, TimeoutTicks)
    \/ SubmitOwn
    \/ \E from \in (0..(protocol.n - 1)) \ {node_id} : \E l \in 0..(Len(levels) - 1) :
           \E c \in SUBSET (0..(protocol.n - 1)) :
               protocol.updates + 1 < MaxUpdates /\ OnUpdate(from, l, Contribution(c), TRUE)
    \/ Tick

SpecDelivery == Init /\ [][NextDelivery]_vars

-----------------------------------------------------------------------------
(* Concurrent callers of one level: start() and select_next_peers() run by  *)
(* several threads, each statement between two lock operations a step.      *)

NThreads == 2

MaxThreadCount == 2

\* the calls a thread may make on the level
ThreadOps ==
    {[op |-> "start", count |-> 0]} \cup {[op |-> "select", count |-> c] : c \in 0..MaxThreadCount}

\* threads are interchangeable: their calls are listed in one fixed order
OpRank(o) == IF o.op = "start" THEN 0 ELSE o.count + 1

\* a thread about to make the call o
NewThread(o) ==
    [op |-> o.op, count |-> o.count, at |-> "call", num_peers |-> 0,
     already_started |-> FALSE, selected |-> <<>>, visited |-> <<>>, ret |-> FALSE]

\* mutant: the write lock is handed out while another caller holds it
write_while_held(th) == TRUE

\* mutant: callers of select_next_peers share the lock like readers
write_shared_by_selectors(th) == IF th.lock = 0 THEN TRUE ELSE th.t[th.lock].op = "select"

\* self.state.write() returns: no other caller holds the lock
write(th) == th.lock = 0

Spawn(ops) ==
    /\ pc = "ready"
    /\ pc' = "threads"
    /\ threads' = [lock |-> 0, t |-> [x \in 1..NThreads |-> NewThread(ops[x])]]
    /\ UNCHANGED <<partitioner, node_id, i, tree_lhs, levels, focus, hist, ret, committee, first, round, protocol, observed>>

\* a step of thread x that touches only the thread's own locals and the lock
ThreadStep(x, th) ==
    /\ threads' = th
    /\ UNCHANGED <<pc, partitioner, node_id, i, tree_lhs, levels, focus, hist, ret, committee, first, round, protocol, observed>>

\* let mut state = self.state.write();
StartLock(x) ==
    /\ pc = "threads"
    /\ threads.t[x].op = "start"
    /\ threads.t[x].at = "call"
    /\ write(threads)
    /\ ThreadStep(x, [threads EXCEPT !.lock = x, !.t[x].at = "locked"])

\* let already_started = state.started;
StartRead(x) ==
    /\ pc = "threads"
    /\ threads.t[x].op = "start"
    /\ threads.t[x].at = "locked"
    /\ ThreadStep(x, [threads EXCEPT !.t[x].already_started = levels[focus].state.started,
                                     !.t[x].at = "read"])

\* state.started = true;
StartWrite(x) ==
    /\ pc = "threads"
    /\ threads.t[x].op = "start"
    /\ threads.t[x].at = "read"
    /\ levels' = [levels EXCEPT ![focus].state.started = TRUE]
    /\ threads' = [threads EXCEPT !.t[x].at = "written"]
    /\ UNCHANGED <<pc, partitioner, node_id, i, tree_lhs, focus, hist, ret, committee, first, round, protocol, observed>>

\* !already_started, and the guard is dropped
StartReturn(x) ==
    /\ pc = "threads"
    /\ threads.t[x].op = "start"
    /\ threads.t[x].at = "written"
    /\ ThreadStep(x, [threads EXCEPT !.lock = 0,
                                     !.t[x].ret = ~threads.t[x].already_started,
                                     !.t[x].at = "done"])

\* the test of id and is_empty, and num_peers = min(count, len): no lock held
SelectEnter(x) ==
    /\ pc = "threads"
    /\ threads.t[x].op = "select"
    /\ threads.t[x].at = "call"
    /\ IF levels[focus].id = 0 \/ is_empty(levels[focus]) THEN
           ThreadStep(x, [threads EXCEPT !.t[x].at = "done"])
       ELSE
           ThreadStep(x, [threads EXCEPT !.t[x].num_peers = min(threads.t[x].count, Len(levels[focus].peer_ids)),
                                         !.t[x].at = "entered"])

\* let mut state = self.state.write();
SelectLock(x) ==
    /\ pc = "threads"
    /\ threads.t[x].op = "select"
    /\ threads.t[x].at = "entered"
    /\ write(threads)
    /\ ThreadStep(x, [threads EXCEPT !.lock = x, !.t[x].at = "locked"])

\* one iteration of the loop
SelectIter(x) ==
    /\ pc = "threads"
    /\ threads.t[x].op = "select"
    /\ threads.t[x].at = "locked"
    /\ Len(threads.t[x].selected) < threads.t[x].num_peers
    /\ LET r == select_loop(levels[focus].peer_ids, levels[focus].state,
                            threads.t[x].selected, threads.t[x].visited, 1)
       IN  /\ levels' = [levels EXCEPT ![focus].state = r.state]
           /\ threads' = [threads EXCEPT !.t[x].selected = r.ret, !.t[x].visited = r.visited]
    /\ UNCHANGED <<pc, partitioner, node_id, i, tree_lhs, focus, hist, ret, committee, first, round, protocol, observed>>

\* the loop is over: selected is returned and the guard is dropped
SelectReturn(x) ==
    /\ pc = "threads"
    /\ threads.t[x].op = "select"
    /\ threads.t[x].at = "locked"
    /\ Len(threads.t[x].selected) = threads.t[x].num_peers
    /\ ThreadStep(x, [threads EXCEPT !.lock = 0, !.t[x].at = "done"])

NextThreads ==
    \/ \E id \in LevelIds : \E n \in 0..MaxPeers : LevelNew(id, [x \in 1..n |-> x - 1])
    \/ \E node \in 0..(MaxN - 1) : CreateLevelsEnter(BinaryPartitioner(MaxN, node), node)
    \/ CreateLevelsIter
    \/ \E f \in 1..Len(levels) : CreateLevelsReturn(f)
    \/ \E ops \in [1..NThreads -> ThreadOps] :
           /\ \A x \in 1..(NThreads - 1) : OpRank(ops[x]) <= OpRank(ops[x + 1])
           /\ Spawn(ops)
    \/ \E x \in 1..NThreads :
           \/ StartLock(x)
           \/ StartRead(x)
           \/ StartWrite(x)
           \/ StartReturn(x)
           \/ SelectEnter(x)
           \/ SelectLock(x)
           \/ SelectIter(x)
           \/ SelectReturn(x)

SpecThreads == Init /\ [][NextThreads]_vars

-----------------------------------------------------------------------------
(* Properties *)

\* the level the caller holds, once it has one
Lv == levels[focus]

NumPeers == Len(Lv.peer_ids)

\* the level can select: id >= 1 and a non-empty peer_ids list
Sendable == pc = "ready" /\ Lv.id >= 1 /\ NumPeers > 0

\* a step that is a call of select_next_peers / of start
SelectStep == pc = "ready" /\ Len(hist'.calls) = Len(hist.calls) + 1
StartStep == pc = "ready" /\ Len(hist'.starts) = Len(hist.starts) + 1

\* C1: on a level with id >= 1 and a non-empty peer_ids list, every call
\* select_next_peers(count) made with cursor c returned exactly
\* m = min(count, |peer_ids|) entries, the j-th being
\* peer_ids[(c + j) mod |peer_ids|], and left the cursor at
\* (c + m) mod |peer_ids|.
C1_SelectRoundRobin ==
    Sendable =>
        \A k \in 1..Len(hist.calls) :
            LET c == hist.calls[k]
                m == IF c.count <= NumPeers THEN c.count ELSE NumPeers
            IN  /\ Len(c.ret) = m
                /\ \A j \in 0..(m - 1) : c.ret[j + 1] = Lv.peer_ids[((c.cursor + j) % NumPeers) + 1]
                /\ c.after = (c.cursor + m) % NumPeers

\* a call that wrapped around the end of a list of three peers
C1_Witness ==
    /\ Sendable
    /\ NumPeers = 3
    /\ \E k \in 1..Len(hist.calls) :
           /\ hist.calls[k].cursor = 2
           /\ hist.calls[k].count = 2
           /\ hist.calls[k].ret = <<Lv.peer_ids[3], Lv.peer_ids[1]>>
           /\ Lv.peer_ids[3] /= Lv.peer_ids[1]

\* C2: on a level with id 0 or with an empty peer_ids list, a call of
\* select_next_peers returns the empty sequence and leaves the level's state
\* (started, complete, next_peer_index) as it was.
C2_NoSelectionOnLevel0OrEmpty ==
    [][(SelectStep /\ (Lv.id = 0 \/ NumPeers = 0)) =>
          (/\ hist'.calls[Len(hist'.calls)].ret = <<>>
           /\ levels' = levels)]_vars

\* level 0 of a created list (it holds the node itself and is started) was
\* asked for peers
C2_Witness ==
    /\ pc = "ready"
    /\ Lv.id = 0
    /\ NumPeers = 1
    /\ Lv.state.started
    /\ \E k \in 1..Len(hist.calls) : hist.calls[k].count >= 1 /\ hist.calls[k].ret = <<>>

\* C3: start() returns true exactly when started was false just before the
\* call and leaves started true; so of the calls made on a level the first
\* returned true if the level was handed out not started, and every other
\* call returned false.
C3_StartReturnsTrueOnce ==
    /\ [][StartStep => (/\ hist'.starts[Len(hist'.starts)] = ~Lv.state.started
                        /\ ret' = ~Lv.state.started
                        /\ levels'[focus].state.started)]_vars
    /\ [](pc = "ready" =>
             \A k \in 1..Len(hist.starts) : hist.starts[k] = (k = 1 /\ ~hist.started0))

\* two calls on a level handed out not started
C3_Witness ==
    /\ pc = "ready"
    /\ ~hist.started0
    /\ hist.starts = <<TRUE, FALSE>>

\* the results of the calls made so far, one after the other, and the
\* indices of peer_ids they were read at
RECURSIVE ConcatRet(_)
ConcatRet(calls) ==
    IF calls = <<>> THEN <<>>
    ELSE ConcatRet(SubSeq(calls, 1, Len(calls) - 1)) \o calls[Len(calls)].ret

RECURSIVE ConcatVisited(_)
ConcatVisited(calls) ==
    IF calls = <<>> THEN <<>>
    ELSE ConcatVisited(SubSeq(calls, 1, Len(calls) - 1)) \o calls[Len(calls)].visited

\* the level was built by Level::new directly (no partitioner was given)
BuiltByNew == pc = "ready" /\ partitioner.levels = 0

\* C4: on a level built by Level::new with id >= 1 and non-empty ids, calls
\* select_next_peers(k) with 1 <= k <= |ids| return, for the j-th call and
\* as long as (j+1)*k <= |ids|, ids[j*k .. (j+1)*k); and on any level the
\* results of the calls, one after the other, are a segment of the cyclic
\* repetition of peer_ids that starts at the initial cursor, read at
\* consecutive positions.
C4_CallsReadConsecutiveSegments ==
    Sendable =>
        /\ BuiltByNew =>
               \A j \in 1..Len(hist.calls) :
                   LET k == hist.calls[1].count
                   IN  (/\ 1 <= k /\ k <= NumPeers
                        /\ \A u \in 1..j : hist.calls[u].count = k
                        /\ j * k <= NumPeers)
                       => hist.calls[j].ret = SubSeq(Lv.peer_ids, (j - 1) * k + 1, j * k)
        /\ LET all == ConcatRet(hist.calls)
               at == ConcatVisited(hist.calls)
           IN  /\ Len(at) = Len(all)
               /\ \A t \in 1..Len(all) :
                      /\ at[t] = (hist.cursor0 + t - 1) % NumPeers
                      /\ all[t] = Lv.peer_ids[at[t] + 1]

\* three calls with k = 1 on a list of three
C4_Witness ==
    /\ BuiltByNew
    /\ Sendable
    /\ NumPeers = 3
    /\ Len(hist.calls) = 3
    /\ \A j \in 1..3 : hist.calls[j].count = 1 /\ hist.calls[j].ret = <<Lv.peer_ids[j]>>

\* C5: on a non-empty level with id >= 1, every window of |peer_ids|
\* consecutive selections reads every position of peer_ids once; one call
\* with count >= |peer_ids| reads every position once and leaves the cursor
\* where it was; and any ceil(|peer_ids| / k) consecutive calls with the
\* same count k >= 1 read every position.
C5_RoundRobinStarvesNoPeer ==
    Sendable =>
        LET at == ConcatVisited(hist.calls)
            n == NumPeers
        IN  /\ \A t \in 1..(Len(at) - n + 1) : {at[u] : u \in t..(t + n - 1)} = 0..(n - 1)
            /\ \A j \in 1..Len(hist.calls) :
                   hist.calls[j].count >= n =>
                       /\ Len(hist.calls[j].visited) = n
                       /\ {hist.calls[j].visited[v] : v \in 1..n} = 0..(n - 1)
                       /\ hist.calls[j].after = hist.calls[j].cursor
            /\ \A a \in 1..Len(hist.calls) : \A b \in a..Len(hist.calls) :
                   LET k == hist.calls[a].count
                   IN  (/\ k >= 1
                        /\ \A u \in a..b : hist.calls[u].count = k
                        /\ b - a + 1 >= (n + k - 1) \div k)
                       => UNION {{hist.calls[u].visited[v] : v \in 1..Len(hist.calls[u].visited)} :
                                     u \in a..b} = 0..(n - 1)

\* two ticks with k = 2 on three peers: four selections, the first peer twice
C5_Witness ==
    /\ Sendable
    /\ NumPeers = 3
    /\ Len(hist.calls) = 2
    /\ hist.calls[1].count = 2
    /\ hist.calls[2].count = 2
    /\ ConcatVisited(hist.calls) = <<0, 1, 2, 0>>

\* a list built by create_levels has been handed to the caller
ListReady == pc = "ready" /\ partitioner.levels > 0

\* C6: when create_levels returns, level 0 is started, every level >= 1 is
\* not started and no level is complete; a level built by Level::new is not
\* started, not complete and has cursor 0.
C6_StateAtConstruction ==
    [][/\ (pc = "create_levels" /\ pc' = "ready") =>
              /\ levels'[1].id = 0
              /\ levels'[1].state.started
              /\ \A l \in 2..Len(levels') : ~levels'[l].state.started
              /\ \A l \in 1..Len(levels') : ~levels'[l].state.complete
       /\ (pc = "init" /\ pc' = "ready") =>
              /\ Len(levels') = 1
              /\ levels'[1].state = [started |-> FALSE, complete |-> FALSE, next_peer_index |-> 0]]_vars

\* a returned list with an empty level and a non-empty level above level 0,
\* before any call is made on it
C6_Witness ==
    /\ ListReady
    /\ OpsUsed = 0
    /\ \A l \in 1..Len(levels) : ~levels[l].state.complete
    /\ \E l \in 2..Len(levels) : is_empty(levels[l])
    /\ \E l \in 2..Len(levels) : ~is_empty(levels[l])

\* the node's own subtree below the level with index l: the node and the
\* peers of levels 1 .. (its id - 1)
OwnSubtree(lvls, node, l) ==
    {node} \cup UNION {{lvls[k].peer_ids[v] : v \in 1..Len(lvls[k].peer_ids)} : k \in 2..(l - 1)}

\* the position of the node inside that subtree, in index order
OwnIndex(lvls, node, l) == Cardinality({x \in OwnSubtree(lvls, node, l) : x < node})

\* the cursor the level with index l was handed out with
InitialCursor(l) == IF l = focus THEN hist.cursor0 ELSE levels[l].state.next_peer_index

\* C7: every non-empty level i >= 1 of a created list starts with
\* next_peer_index = (position of node_id in the own subtree of levels
\* 0..i-1) mod |peer_ids|, and the first peer select_next_peers returns on
\* it is peer_ids[that value].
C7_InitialCursorIsOwnIndex ==
    ListReady =>
        \A l \in 2..Len(levels) :
            ~is_empty(levels[l]) =>
                LET e == OwnIndex(levels, node_id, l) % Len(levels[l].peer_ids)
                IN  /\ InitialCursor(l) = e
                    /\ l = focus =>
                           \A k \in 1..Len(hist.calls) :
                               (/\ hist.calls[k].count >= 1
                                /\ \A u \in 1..(k - 1) : hist.calls[u].count = 0)
                               => hist.calls[k].ret[1] = levels[l].peer_ids[e + 1]

\* the second node of its pair of two starts the level of two peers at the
\* second of them
C7_Witness ==
    /\ ListReady
    /\ focus >= 2
    /\ NumPeers = 2
    /\ OwnIndex(levels, node_id, focus) = 1
    /\ Len(hist.calls) >= 1
    /\ hist.calls[1].count = 1
    /\ hist.calls[1].ret = <<Lv.peer_ids[2]>>

StateNo(st) == IF st.complete THEN 2 ELSE IF st.started THEN 1 ELSE 0

\* C9: once a level list is in use, started stays true once true, complete
\* stays true once true, a level moves only Waiting -> Started -> Complete,
\* one step at a time, and no level is complete without being started.
C9_NoBackwardTransitions ==
    /\ [][pc = "ready" =>
              /\ pc' = "ready"
              /\ Len(levels') = Len(levels)
              /\ \A l \in 1..Len(levels) :
                     /\ levels[l].state.started => levels'[l].state.started
                     /\ levels[l].state.complete => levels'[l].state.complete
                     /\ StateNo(levels'[l].state) \in {StateNo(levels[l].state), StateNo(levels[l].state) + 1}]_vars
    /\ [](pc = "ready" => \A l \in 1..Len(levels) : levels[l].state.complete => levels[l].state.started)

\* a level handed out waiting that was started, asked for peers and completed
C9_Witness ==
    /\ ListReady
    /\ ~hist.started0
    /\ hist.starts = <<TRUE>>
    /\ Len(hist.calls) >= 1
    /\ Lv.state.started
    /\ Lv.state.complete

SetMin(S) == CHOOSE x \in S : \A y \in S : x <= y
SetMax(S) == CHOOSE x \in S : \A y \in S : x >= y

\* the answer r is a range just left or just right of the own subtree S
JustLeft(r, S) == r.end + 1 = SetMin(S)
JustRight(r, S) == r.start = SetMax(S) + 1

\* C10: create_levels panics when the range answered for a level i >= 1 is
\* neither just left nor just right of the accumulated own subtree, and a
\* panic returns nothing; every range of a returned list was just left or
\* just right of the own subtree of the levels below it.
C10_NonConsecutiveRangesAreFatal ==
    /\ [][/\ (/\ pc = "create_levels"
              /\ i >= 1
              /\ i < partitioner.levels
              /\ partitioner.range[i + 1].tag = "Ok"
              /\ ~JustLeft(partitioner.range[i + 1], OwnSubtree(levels, node_id, i + 1))
              /\ ~JustRight(partitioner.range[i + 1], OwnSubtree(levels, node_id, i + 1)))
             => pc' = "panicked"
          /\ pc = "panicked" => pc' = "panicked"]_vars
    /\ [](ListReady =>
             \A l \in 2..Len(levels) :
                 partitioner.range[l].tag = "Ok" =>
                     \/ JustLeft(partitioner.range[l], OwnSubtree(levels, node_id, l))
                     \/ JustRight(partitioner.range[l], OwnSubtree(levels, node_id, l)))

\* the panic on a non-empty range that overlaps the own subtree
C10_Witness ==
    /\ pc = "panicked"
    /\ i >= 1
    /\ partitioner.range[i + 1].tag = "Ok"
    /\ partitioner.range[i + 1].start <= partitioner.range[i + 1].end
    /\ partitioner.range[i + 1].start <= node_id
    /\ node_id <= partitioner.range[i + 1].end

\* committee runs: the peers of member a - 1 on the level with index l, and
\* the position of x among them
PeersOf(a, l) == {committee[a][l].peer_ids[v] : v \in 1..Len(committee[a][l].peer_ids)}
IndexAmong(x, S) == Cardinality({y \in S : y < x})

\* member a - 1's peer range on the level with index l is as large as its
\* own subtree below that level
SameSize(a, l) ==
    Len(committee[a][l].peer_ids) = Cardinality(OwnSubtree(committee[a], a - 1, l))

AllSelected(l) == \A c \in 1..Len(committee) : first[c][l].done

\* C8: for every level i >= 1 and every member a whose level-i peer range is
\* as large as a's own subtree (every member and level of a committee whose
\* size is a power of two), the first peer b that a selects on level i
\* stands in the opposite subtree where a stands in its own, the first peer
\* b selects on level i is a, and once every member has made its first
\* selection on level i exactly one member has selected a.
C8_SymmetricPairing ==
    pc = "committee" =>
        \A a \in 1..Len(committee) : \A l \in 2..Len(committee[a]) :
            /\ Len(committee) \in {Pow2(e) : e \in 0..MaxCommittee} => SameSize(a, l)
            /\ (SameSize(a, l) /\ first[a][l].done) =>
                /\ Len(first[a][l].ret) = 1
                /\ LET b == first[a][l].ret[1]
                   IN  /\ b \in PeersOf(a, l)
                       /\ IndexAmong(b, PeersOf(a, l)) = IndexAmong(a - 1, OwnSubtree(committee[a], a - 1, l))
                       /\ first[b + 1][l].done => first[b + 1][l].ret = <<a - 1>>
                /\ AllSelected(l) =>
                       Cardinality({c \in 1..Len(committee) : first[c][l].ret = <<a - 1>>}) = 1

\* a committee of eight after the first selections on the top level: members
\* 1 and 5 have selected each other
C8_Witness ==
    /\ pc = "committee"
    /\ Len(committee) = 8
    /\ AllSelected(4)
    /\ first[2][4].ret = <<5>>
    /\ first[6][4].ret = <<1>>

\* C11: an iteration of create_levels whose partitioner answer is EmptyLevel
\* appends a level with id i, no peers, not started, not complete, leaves
\* tree_lhs as it is and goes on with level i + 1; any other error is
\* fatal; the empty level is in the returned list.
C11_EmptyLevelIsNotFatal ==
    /\ [][(pc = "create_levels" /\ i < partitioner.levels) =>
              /\ partitioner.range[i + 1].tag = "EmptyLevel" =>
                     /\ pc' = "create_levels"
                     /\ i' = i + 1
                     /\ levels' = Append(levels,
                            [id |-> i, peer_ids |-> <<>>,
                             state |-> [started |-> FALSE, complete |-> FALSE, next_peer_index |-> 0]])
                     /\ tree_lhs' = tree_lhs
              /\ partitioner.range[i + 1].tag \notin {"Ok", "EmptyLevel"} => pc' = "panicked"]_vars
    /\ [](ListReady =>
             \A l \in 1..Len(levels) :
                 partitioner.range[l].tag = "EmptyLevel" =>
                     levels[l].id = l - 1 /\ levels[l].peer_ids = <<>>)

\* the loop went past an empty level 1 and built a non-empty level 2
C11_Witness ==
    /\ pc = "create_levels"
    /\ i = 3
    /\ partitioner.range[2].tag = "EmptyLevel"
    /\ is_empty(levels[2])
    /\ ~is_empty(levels[3])
    /\ tree_lhs.end - tree_lhs.start = 1 + Len(levels[3].peer_ids)

\* C12: for every committee size and every member, create_levels with the
\* binary partitioner returns a list (no panic: ranges consecutive, node
\* found in its subtree, no remainder by zero) with one level per
\* partitioner level, ids 0, 1, ... in order.
C12_BinaryPartitionerNeverPanics ==
    /\ pc /= "panicked"
    /\ \A a \in 1..Len(committee) :
           /\ Len(committee[a]) = NumLevels(Len(committee))
           /\ \A l \in 1..Len(committee[a]) : committee[a][l].id = l - 1

\* a committee of seven: the last member has an empty level 1 below a
\* non-empty level 2
C12_Witness ==
    /\ pc = "committee"
    /\ Len(committee) = 7
    /\ is_empty(committee[7][2])
    /\ committee[7][3].peer_ids = <<4, 5>>
    /\ committee[7][4].peer_ids = <<0, 1, 2, 3>>

\* C13: for N = 7 and node_id = 0 the levels are L0 = {0}, L1 = {1},
\* L2 = {2,3}, L3 = {4,5,6}, with ids 0..3 and cursor 0 on every level as
\* built.
C13_LevelsOfSevenAtNodeZero ==
    Len(committee) = 7 =>
        /\ pc = "committee"
        /\ Len(committee[1]) = 4
        /\ \A l \in 1..4 : committee[1][l].id = l - 1
        /\ committee[1][1].peer_ids = <<0>>
        /\ committee[1][2].peer_ids = <<1>>
        /\ committee[1][3].peer_ids = <<2, 3>>
        /\ committee[1][4].peer_ids = <<4, 5, 6>>
        /\ \A l \in 1..4 : ~first[1][l].done => committee[1][l].state.next_peer_index = 0

\* the committee of seven as built, before any selection
C13_Witness ==
    /\ pc = "committee"
    /\ Len(committee) = 7
    /\ round = 1
    /\ \A a \in 1..7 : ~first[a][1].done

\* C14: level 0 of every returned list holds exactly node_id, and
\* select_next_peers on it never returns a peer.
C14_LevelZeroIsOwnNode ==
    ListReady =>
        /\ levels[1].id = 0
        /\ levels[1].peer_ids = <<node_id>>
        /\ focus = 1 => \A k \in 1..Len(hist.calls) : hist.calls[k].ret = <<>>

\* level 0 was asked for peers twice, started and complete
C14_Witness ==
    /\ ListReady
    /\ focus = 1
    /\ Len(hist.calls) = 2
    /\ hist.calls[1].count >= 1
    /\ hist.calls[2].count >= 1
    /\ Lv.state.complete

\* a step of a running aggregation, and the step a counted tick() takes
ProtocolStep == pc = "protocol" /\ pc' = "protocol"
TickStep == ProtocolStep /\ protocol'.clock = protocol.clock + 1

Started(l) == levels[l + 1].state.started
Complete(l) == levels[l + 1].state.complete
Cursor(l) == levels[l + 1].state.next_peer_index
Best(l) == protocol.store.best[l]

\* the start rule's condition as the tick meets it at level l
StartDue(l) ==
    \/ \A j \in 0..(l - 1) : (levels[j + 1].state.complete)'
    \/ protocol'.clock >= (l + 1) * protocol.timeout

\* C15: a level i >= 1 becomes started exactly in the tick() that finds all
\* levels below complete or the level's start timeout elapsed, whichever
\* comes first: no step starts it earlier, and a tick at or after the
\* timeout leaves it started even when levels below are incomplete.
C15_StartRule ==
    [][ProtocolStep =>
           \A l \in 1..(Len(levels) - 1) :
               /\ (Started(l)' /= Started(l)) => (TickStep /\ StartDue(l) /\ Started(l)')
               /\ (TickStep /\ StartDue(l)) => Started(l)'
               /\ (TickStep /\ ~StartDue(l)) => ~Started(l)']_vars

\* the timeout of level 2 elapsed at this tick with levels 0 and 1 both
\* incomplete, and level 2 is started and was served
C15_Witness ==
    /\ pc = "protocol"
    /\ Len(levels) = 3
    /\ protocol.clock = 3 * protocol.timeout
    /\ ~protocol.terminal
    /\ ~Complete(0)
    /\ ~Complete(1)
    /\ Started(2)
    /\ \E x \in 1..Len(protocol.sent) : protocol.sent[x].level = 2

\* the levels of the sends of the last tick
SentLevels == {protocol.sent[x].level : x \in 1..Len(protocol.sent)}

\* C16: peers are selected, the cursor advanced and updates emitted only by
\* a tick and only for levels that are started and not complete: a level
\* not started or complete keeps its cursor and has no send in that tick.
C16_SendOnlyStartedIncomplete ==
    [][ProtocolStep =>
           \A l \in 0..(Len(levels) - 1) :
               /\ Cursor(l)' /= Cursor(l) => (TickStep /\ Started(l)' /\ ~Complete(l)')
               /\ (TickStep /\ (l \in SentLevels')) => (Started(l)' /\ ~Complete(l)')
               /\ ~TickStep => protocol'.sent = protocol.sent]_vars

\* a tick served level 1 alone: level 0 is complete, level 2 not started
C16_Witness ==
    /\ pc = "protocol"
    /\ Len(levels) = 3
    /\ protocol.clock = 1
    /\ Complete(0)
    /\ Started(1)
    /\ ~Complete(1)
    /\ ~Started(2)
    /\ SentLevels = {1}

\* C17: within one tick the sends are issued in order of increasing level
\* id: no send for a level follows a send for a higher level.
C17_SendsInIncreasingLevelOrder ==
    pc = "protocol" =>
        \A x \in 1..Len(protocol.sent) : \A y \in 1..Len(protocol.sent) :
            x < y => protocol.sent[x].level <= protocol.sent[y].level

\* one tick sent for level 1 and then for level 2
C17_Witness ==
    /\ pc = "protocol"
    /\ Len(protocol.sent) = 2
    /\ protocol.sent[1].level = 1
    /\ protocol.sent[2].level = 2

ScoreOfBest(l) == score_of(levels, l, Best(l))

\* C19: the score of best(i) never decreases, and an on_update replaces
\* best(i) only by a contribution of strictly greater score.
C19_BestScoreMonotonic ==
    [][ProtocolStep =>
           \A l \in 0..(Len(levels) - 1) :
               /\ ScoreOfBest(l)' >= ScoreOfBest(l)
               /\ (protocol'.updates /= protocol.updates /\ Best(l)' /= Best(l))
                      => ScoreOfBest(l)' > ScoreOfBest(l)]_vars

\* level 2 received the singletons of peers 1 and 2: the best made of the
\* first was replaced by the combination of both
C19_Witness ==
    /\ pc = "protocol"
    /\ Len(levels) = 3
    /\ node_id = 0
    /\ protocol.updates = 2
    /\ protocol.store.best_incoming[2][1] = Some(Contribution({1}))
    /\ protocol.store.best_incoming[2][2] = Some(Contribution({2}))
    /\ Best(2) = Some(Contribution({1, 2}))

\* C20: once a level is complete its best contribution is the same in
\* every later state, whatever is received afterwards.
C20_BestImmutableOnceComplete ==
    [][ProtocolStep =>
           \A l \in 0..(Len(levels) - 1) :
               Complete(l) => (Complete(l)' /\ Best(l)' = Best(l))]_vars

\* the tick sent for level 1; then peer 1's update completed level 1 and
\* peer 2's update for level 1 arrived on the complete level
C20_Witness ==
    /\ pc = "protocol"
    /\ Len(levels) = 3
    /\ node_id = 0
    /\ protocol.clock = 1
    /\ 1 \in SentLevels
    /\ ~protocol.terminal
    /\ Complete(1)
    /\ protocol.updates = 2
    /\ protocol.store.best_incoming[1][1] = Some(Contribution({1}))
    /\ protocol.store.best_incoming[1][2] = Some(Contribution({1}))
    /\ Best(1) = Some(Contribution({1}))

\* two outcomes of a handler agree in the levels and in the protocol state,
\* the count of processed updates apart
SameOutcome(a, b) ==
    /\ a.levels = b.levels
    /\ [a.protocol EXCEPT !.updates = 0] = [b.protocol EXCEPT !.updates = 0]

\* once is what one delivery of (from, l, c, valid) left: a second one
\* leaves the same and, where the first was processed, so does the next tick
SecondDeliveryChangesNothing(once, from, l, c, valid) ==
    LET twice == on_update(once.protocol, once.levels, from, l, c, valid)
    IN  /\ SameOutcome(twice, once)
        /\ once.protocol.updates /= protocol.updates =>
               SameOutcome(tick(twice.protocol, twice.levels), tick(once.protocol, once.levels))

\* C21: on_update(from, level, c) applied twice leaves the store
\* (individual, best, best_incoming), the level flags and the cursors as
\* applying it once does, and the next tick sends the same.
C21_OnUpdateIdempotent ==
    pc = "protocol" =>
        \A from \in (0..(protocol.n - 1)) \ {node_id} : \A l \in 0..(Len(levels) - 1) :
            \A c \in SUBSET (0..(protocol.n - 1)) : \A valid \in BOOLEAN :
                SecondDeliveryChangesNothing(
                    on_update(protocol, levels, from, l, Contribution(c), valid),
                    from, l, Contribution(c), valid)

\* peer 1's singleton was delivered once on level 2: a second delivery of it
\* is processed and changes nothing, the singleton of peer 2 would
C21_Witness ==
    /\ pc = "protocol"
    /\ Len(levels) = 3
    /\ node_id = 0
    /\ ~protocol.terminal
    /\ protocol.updates = 1
    /\ protocol.store.individual = [l \in 0..2 |-> IF l = 2 THEN {1} ELSE {}]
    /\ protocol.store.best = [l \in 0..2 |-> IF l = 2 THEN Some(Contribution({1})) ELSE None]
    /\ protocol.store.best_incoming[2][1] = Some(Contribution({1}))
    /\ protocol.store.best_incoming[2][2] = None
    /\ on_update(protocol, levels, 1, 2, Contribution({1}), TRUE).protocol.updates = 2
    /\ ~SameOutcome(on_update(protocol, levels, 2, 2, Contribution({2}), TRUE),
                    [levels |-> levels, protocol |-> protocol])

\* every contributor's share is inside the contribution exactly once
DisjointUnion(c) == c.shares = Cardinality(c.contributors)

NumLevelsBuilt == Len(levels)

\* the contributions the store holds and hands out, and those sent
StoredContributions ==
    UNION {{Best(l)[x] : x \in 1..Len(Best(l))} : l \in 0..(NumLevelsBuilt - 1)}
    \cup UNION {UNION {{protocol.store.best_incoming[l][q][x] :
                           x \in 1..Len(protocol.store.best_incoming[l][q])} :
                       q \in 0..(protocol.n - 1)} : l \in 0..(NumLevelsBuilt - 1)}
    \cup UNION {{combined(protocol.store, l)[x] : x \in 1..Len(combined(protocol.store, l))} :
                   l \in 0..(NumLevelsBuilt - 1)}
    \cup {protocol.sent[x].contribution : x \in 1..Len(protocol.sent)}

Unchanged == [levels |-> levels, protocol |-> protocol]

\* C23: once the protocol is terminal, as abort() leaves it, a tick emits no
\* send and changes nothing, and every on_update and submit_own is ignored
\* with store and level state as they were.
C23_TerminalAfterAbort ==
    (pc = "protocol" /\ protocol.terminal) =>
        /\ tick(protocol, levels) = Unchanged
        /\ submit_own(protocol, levels, node_id) = Unchanged
        /\ \A from \in (0..(protocol.n - 1)) \ {node_id} : \A l \in 0..(Len(levels) - 1) :
               \A c \in SUBSET (0..(protocol.n - 1)) : \A valid \in BOOLEAN :
                   on_update(protocol, levels, from, l, Contribution(c), valid) = Unchanged

\* aborted with the top level incomplete, with ticks and updates left to
\* come and level 1 started with something to send
C23_Witness ==
    /\ pc = "protocol"
    /\ Len(levels) = 3
    /\ protocol.terminal
    /\ ~Complete(2)
    /\ protocol.clock < MaxTicks
    /\ protocol.updates < MaxUpdates
    /\ Started(1)
    /\ ~Complete(1)
    /\ combined(protocol.store, 1) /= None

\* the ids of the half-open range tree_lhs
TreeLhsIds == {x \in 0..(MaxN + MaxIdx + 2) : tree_lhs.start <= x /\ x < tree_lhs.end}

\* the ids of the inclusive range the partitioner answers for level l
RangeIds(l) ==
    {x \in 0..(MaxN + MaxIdx + 2) :
        partitioner.range[l + 1].start <= x /\ x <= partitioner.range[l + 1].end}

\* C24: while create_levels runs, each non-empty level i >= 1 that is
\* accepted extends the own-subtree range tree_lhs to the contiguous union of
\* the previous range and the level's range: to the left when the level's
\* range ends just before it, to the right when it begins just after it.
\* After every iteration past level 0 the range contains node_id and is
\* exactly node_id together with the peer_ids of the levels built so far.
C24_TreeLhsIsOwnSubtree ==
    /\ [][(/\ pc = "create_levels" /\ pc' = "create_levels"
           /\ i >= 1 /\ i' = i + 1
           /\ partitioner.range[i + 1].tag = "Ok") =>
              /\ \/ /\ partitioner.range[i + 1].end + 1 = tree_lhs.start
                    /\ tree_lhs'.start = partitioner.range[i + 1].start
                    /\ tree_lhs'.end = tree_lhs.end
                 \/ /\ partitioner.range[i + 1].start = tree_lhs.end
                    /\ tree_lhs'.start = tree_lhs.start
                    /\ tree_lhs'.end = partitioner.range[i + 1].end + 1
              /\ TreeLhsIds' = TreeLhsIds \cup RangeIds(i)
              /\ TreeLhsIds \cap RangeIds(i) = {}
              /\ RangeIds(i) = PeerSet(levels'[i + 1])]_vars
    /\ []((pc = "create_levels" /\ \E l \in 2..Len(levels) : ~is_empty(levels[l])) =>
             /\ node_id \in TreeLhsIds
             /\ tree_lhs.end - tree_lhs.start = Cardinality(TreeLhsIds)
             /\ TreeLhsIds = {node_id} \cup UNION {PeerSet(levels[l]) : l \in 2..Len(levels)})

\* the loop has extended the range once to the left and once to the right
C24_Witness ==
    /\ pc = "create_levels"
    /\ i = 3
    /\ partitioner.range[2].tag = "Ok"
    /\ partitioner.range[3].tag = "Ok"
    /\ partitioner.range[2].end + 1 = node_id
    /\ partitioner.range[3].start = node_id + 1
    /\ tree_lhs.start = partitioner.range[2].start
    /\ tree_lhs.end = partitioner.range[3].end + 1
    /\ tree_lhs.end - tree_lhs.start >= 3

\* C25: in every state reachable from Level::new or create_levels by calls
\* of start() and select_next_peers(), the cursor of every non-empty level
\* is an index of its peer list: 0 <= next_peer_index < |peer_ids|.
C25_CursorWithinPeerList ==
    pc \in {"create_levels", "ready"} =>
        \A l \in 1..Len(levels) :
            ~is_empty(levels[l]) =>
                /\ 0 <= levels[l].state.next_peer_index
                /\ levels[l].state.next_peer_index < Len(levels[l].peer_ids)

\* a level of create_levels handed out with its cursor on the last of two
\* or more peers, started, and a selection that wrapped the cursor to 0
C25_Witness ==
    /\ ListReady
    /\ NumPeers >= 2
    /\ hist.cursor0 = NumPeers - 1
    /\ Len(hist.starts) >= 1
    /\ Len(hist.calls) >= 1
    /\ hist.calls[1].cursor = NumPeers - 1
    /\ hist.calls[1].after = 0
    /\ levels[focus].state.next_peer_index = hist.calls[Len(hist.calls)].after

\* a step that is a call of is_started, is_complete, is_empty or num_peers
\* whose answer differs from the last one
ObserverStep ==
    /\ pc = "ready"
    /\ hist' = hist
    /\ ret' /= ret \/ observed' /= observed

\* C26: select_next_peers changes only the cursor of its level (id, peer_ids,
\* started and complete stay), start() changes only started, and is_started,
\* is_complete, is_empty and num_peers change nothing of any level.
C26_Frame ==
    [][/\ SelectStep =>
              /\ levels' = [levels EXCEPT ![focus].state.next_peer_index =
                                levels'[focus].state.next_peer_index]
              /\ Lv'.state.started = Lv.state.started
              /\ Lv'.state.complete = Lv.state.complete
              /\ Lv'.id = Lv.id /\ Lv'.peer_ids = Lv.peer_ids
       /\ StartStep =>
              /\ levels' = [levels EXCEPT ![focus].state.started = levels'[focus].state.started]
              /\ Lv'.state.next_peer_index = Lv.state.next_peer_index
              /\ Lv'.state.complete = Lv.state.complete
              /\ Lv'.id = Lv.id /\ Lv'.peer_ids = Lv.peer_ids
       /\ ObserverStep => levels' = levels]_vars

\* a level of three peers that was started, moved its cursor and was then
\* asked for its number of peers and whether it is empty
C26_Witness ==
    /\ pc = "ready"
    /\ NumPeers = 3
    /\ Lv.id >= 1
    /\ Len(hist.starts) = 1
    /\ Len(hist.calls) = 1
    /\ Lv.state.started
    /\ ~Lv.state.complete
    /\ Lv.state.next_peer_index = 2
    /\ hist.cursor0 = 0
    /\ observed = 3
    /\ ret = FALSE

\* the callers of start() / of select_next_peers() among the threads
Starters == {x \in 1..Len(threads.t) : threads.t[x].op = "start"}

Selectors == {x \in 1..Len(threads.t) : threads.t[x].op = "select"}

AllDone(xs) == \A x \in xs : threads.t[x].at = "done"

\* the starters whose call returned true
Winners == {x \in Starters : threads.t[x].at = "done" /\ threads.t[x].ret}

\* C27: when several threads call start() on the same level that was not
\* started, exactly one of the calls returns true, whatever the interleaving:
\* never two, and one once all of them have returned.
C27_ConcurrentStartOneWinner ==
    (pc = "threads" /\ ~hist.started0) =>
        /\ Cardinality(Winners) <= 1
        /\ (Starters /= {} /\ AllDone(Starters)) => Cardinality(Winners) = 1
        /\ \A x \in Starters :
               threads.t[x].at \in {"read", "written", "done"} /\ ~threads.t[x].already_started =>
                   \A y \in Starters \ {x} :
                       threads.t[y].at \in {"read", "written", "done"} => threads.t[y].already_started

\* two threads have both returned from start() on a level that was not started
C27_Witness ==
    /\ pc = "threads"
    /\ ~hist.started0
    /\ Cardinality(Starters) >= 2
    /\ AllDone(Starters)
    /\ Cardinality(Winners) = 1
    /\ \E x \in Starters : ~threads.t[x].ret
    /\ levels[focus].state.started

\* the level as it was when the threads were spawned
Level0 ==
    [Lv EXCEPT !.state = [started |-> hist.started0, complete |-> FALSE,
                          next_peer_index |-> hist.cursor0]]

\* the orders the calls of the threads can be made in one after the other
Orders == {o \in [1..NThreads -> 1..NThreads] : \A a, b \in 1..NThreads : o[a] = o[b] => a = b}

\* the call of thread x made on level lv
CallOf(x, lv) ==
    IF threads.t[x].op = "start" THEN
        [state |-> start(lv).state, ret |-> start(lv).ret, selected |-> <<>>]
    ELSE
        [state |-> select_next_peers(lv, threads.t[x].count).state, ret |-> FALSE,
         selected |-> select_next_peers(lv, threads.t[x].count).ret]

\* the level after the first k calls of order o
RECURSIVE LevelAfter(_, _)
LevelAfter(o, k) ==
    IF k = 0 THEN Level0 ELSE [Level0 EXCEPT !.state = CallOf(o[k], LevelAfter(o, k - 1)).state]

\* every thread returned what its call returns in order o, and the level
\* ended as it ends after the calls in that order
SerialOutcome(o) ==
    /\ Lv = LevelAfter(o, NThreads)
    /\ \A k \in 1..NThreads :
           /\ threads.t[o[k]].selected = CallOf(o[k], LevelAfter(o, k - 1)).selected
           /\ threads.t[o[k]].ret = CallOf(o[k], LevelAfter(o, k - 1)).ret

\* the number of peers the threads have selected so far
RECURSIVE TotalSelected(_)
TotalSelected(k) == IF k = 0 THEN 0 ELSE Len(threads.t[k].selected) + TotalSelected(k - 1)

\* C28: concurrent calls of select_next_peers on one level are atomic: each
\* call returns a contiguous cyclic segment of peer_ids, the segments of two
\* calls do not interleave (a call in its loop finds the cursor where its own
\* last iteration left it), the cursor is the initial cursor plus the number
\* of peers returned so far modulo |peer_ids|, and the outcome is that of the
\* calls made one after the other in some order.
C28_ConcurrentSelectIsSerial ==
    pc = "threads" =>
        /\ \A x \in Selectors :
               LET v == threads.t[x].visited
               IN  /\ Len(threads.t[x].selected) = Len(v)
                   /\ \A j \in 1..Len(v) : threads.t[x].selected[j] = Lv.peer_ids[v[j] + 1]
                   /\ \A j \in 1..(Len(v) - 1) : v[j + 1] = (v[j] + 1) % NumPeers
                   /\ (threads.t[x].at = "locked" /\ Len(v) >= 1) =>
                          Lv.state.next_peer_index = (v[Len(v)] + 1) % NumPeers
                   /\ threads.t[x].at = "done" =>
                          Len(v) = (IF Lv.id = 0 THEN 0 ELSE min(threads.t[x].count, NumPeers))
        /\ NumPeers > 0 =>
               Lv.state.next_peer_index = (hist.cursor0 + TotalSelected(NThreads)) % NumPeers
        /\ AllDone(1..NThreads) => \E o \in Orders : SerialOutcome(o)

\* two threads have each selected two of three peers: the second segment
\* starts where the first ended and wraps
C28_Witness ==
    /\ pc = "threads"
    /\ NumPeers = 3
    /\ Lv.id >= 1
    /\ Cardinality(Selectors) >= 2
    /\ AllDone(1..NThreads)
    /\ \E x, y \in Selectors :
           /\ x /= y
           /\ threads.t[x].visited = <<hist.cursor0, (hist.cursor0 + 1) % 3>>
           /\ threads.t[y].visited = <<(hist.cursor0 + 2) % 3, hist.cursor0>>
    /\ Lv.state.next_peer_index = (hist.cursor0 + 4) % 3

\* the number of peers on the first k levels of the list lvls
RECURSIVE SumPeers(_, _)
SumPeers(lvls, k) == IF k = 0 THEN 0 ELSE Len(lvls[k].peer_ids) + SumPeers(lvls, k - 1)

\* C29: the levels create_levels builds from the binary partitioner for a
\* member of a committee of N partition the committee: the peer sets of two
\* levels are disjoint, their union is 0..N-1, the member itself is the one
\* peer of level 0 and is on no other level, and the level sizes sum to N.
C29_LevelsPartitionCommittee ==
    \A a \in 1..Len(committee) :
        LET lvls == committee[a]
            N == Len(committee)
        IN  /\ Len(lvls) >= 1
            /\ \A l, m \in 1..Len(lvls) : l /= m => PeerSet(lvls[l]) \cap PeerSet(lvls[m]) = {}
            /\ UNION {PeerSet(lvls[l]) : l \in 1..Len(lvls)} = 0..(N - 1)
            /\ lvls[1].peer_ids = <<a - 1>>
            /\ \A l \in 2..Len(lvls) : (a - 1) \notin PeerSet(lvls[l])
            /\ SumPeers(lvls, Len(lvls)) = N

\* a committee that is not a power of two: the levels of its last member
\* have an empty level and still cover everyone
C29_Witness ==
    /\ pc = "committee"
    /\ Len(committee) = 6
    /\ Len(committee[6]) = 4
    /\ committee[6][1].peer_ids = <<5>>
    /\ committee[6][2].peer_ids = <<4>>
    /\ is_empty(committee[6][3])
    /\ committee[6][4].peer_ids = <<0, 1, 2, 3>>
    /\ committee[3][3].peer_ids = <<0, 1>>
    /\ committee[3][4].peer_ids = <<4, 5>>

====
